---- MODULE Spec2Model ----
(***************************************************************************)
(* Model of simplelru/lru_ttl.go: LRUTtl, a fixed size LRU cache whose     *)
(* entries carry a time.Timer and a CleanUp goroutine.                     *)
(*                                                                         *)
(* The heap (the LRUTtl struct, the container/list elements, the entry_ttl *)
(* structs with their timers, and the log of onEvict calls) is one record, *)
(* c, so that the functions of the source are operators from heap to heap. *)
(* Spec runs every exported method as one step (a sequential caller, plus  *)
(* the timers and the CleanUp goroutines).  SpecConc and SpecAdd run the   *)
(* methods statement by statement from several caller threads.             *)
(*                                                                         *)
(* Time is kept relative to the clock: c.ttl[e] is e.ttl - time.Now(),     *)
(* cut off at -1 (the instant is past), and c.when[e] is the time left on  *)
(* e.timer, cut off at 0 (the timer is due).  Tick advances the clock.     *)
(***************************************************************************)
EXTENDS Integers, Sequences, FiniteSets, TLC

VARIABLES c, lock, pc, loc

vars == <<c, lock, pc, loc>>

\* ---------------------------------------------------------------- bounds
MaxEntries == 2
MaxSize == 2
MaxExpiry == 1
NKeys == 2
NVals == 2
NThreads == 2

\* nil, and the sentinel element l.root of the list
Nil == -1
Root == 0

KeySet == 1..NKeys
ValSet == 1..NVals
Entries == 1..MaxEntries
Elems == 0..MaxEntries
\* Resize takes any int
SizeArgs == -1..MaxSize

\* ------------------------------------------------- container/list on the heap
\* l.Init(): root.next = root, root.prev = root, len = 0 (elements keep e.list)
ListInit(h) ==
    [h EXCEPT !.next[Root] = Root, !.prev[Root] = Root, !.len = 0]

\* l.Back()
Back(h) == IF h.len = 0 THEN Nil ELSE h.prev[Root]

\* e.Prev()
Prev(h, e) ==
    IF e # Root /\ h.elist[e] /\ h.prev[e] # Root THEN h.prev[e] ELSE Nil

\* l.Len()
ListLen(h) == h.len

\* l.PushFront(v): insert(e, &l.root)
PushFront(h, e) ==
    LET at == Root
        p1 == [h.prev EXCEPT ![e] = at]
        n1 == [h.next EXCEPT ![e] = h.next[at]]
        n2 == [n1 EXCEPT ![p1[e]] = e]
        p2 == [p1 EXCEPT ![n2[e]] = e]
    IN  [h EXCEPT !.next = n2, !.prev = p2, !.elist[e] = TRUE, !.len = h.len + 1]

\* l.MoveToFront(e): no-op unless e.list == l and e is not the front
MoveToFront(h, e) ==
    IF e = Root \/ ~h.elist[e] \/ h.next[Root] = e THEN h
    ELSE LET at == Root
             n1 == [h.next EXCEPT ![h.prev[e]] = h.next[e]]
             p1 == [h.prev EXCEPT ![n1[e]] = h.prev[e]]
             p2 == [p1 EXCEPT ![e] = at]
             n2 == [n1 EXCEPT ![e] = n1[at]]
             n3 == [n2 EXCEPT ![p2[e]] = e]
             p3 == [p2 EXCEPT ![n3[e]] = e]
         IN  [h EXCEPT !.next = n3, !.prev = p3]

\* l.Remove(e): no-op unless e.list == l
ListRemove(h, e) ==
    IF e = Root \/ ~h.elist[e] THEN h
    ELSE LET n1 == [h.next EXCEPT ![h.prev[e]] = h.next[e]]
             p1 == [h.prev EXCEPT ![n1[e]] = h.prev[e]]
         IN  [h EXCEPT !.next = [n1 EXCEPT ![e] = Nil],
                       !.prev = [p1 EXCEPT ![e] = Nil],
                       !.elist[e] = FALSE,
                       !.len = h.len - 1]

\* the list from back to front, as Keys walks it: at most n elements
RECURSIVE Walk(_, _, _)
Walk(h, e, n) ==
    IF e = Nil \/ n = 0 THEN <<>> ELSE <<e>> \o Walk(h, Prev(h, e), n - 1)

\* the elements of the list, oldest first
Order(h) == Walk(h, Back(h), MaxEntries + 1)

\* ------------------------------------------------------------ the cache
\* NewLRUTtl: no cache (an error) unless size is positive
NewLRUTtl(size, expiry) ==
    [ok     |-> ~(size <= 0),
     panic  |-> FALSE,
     size   |-> size,
     expiry |-> expiry,
     items  |-> [k \in KeySet |-> Nil],
     next   |-> [e \in Elems |-> IF e = Root THEN Root ELSE Nil],
     prev   |-> [e \in Elems |-> IF e = Root THEN Root ELSE Nil],
     elist  |-> [e \in Entries |-> FALSE],
     len    |-> 0,
     nalloc |-> 0,
     key    |-> [e \in Entries |-> Nil],
     value  |-> [e \in Entries |-> Nil],
     ttl    |-> [e \in Entries |-> 0],
     when   |-> [e \in Entries |-> Nil],
     ch     |-> [e \in Entries |-> FALSE],
     evicts |-> [e \in Entries |-> 0],
     evArg  |-> [e \in Entries |-> <<>>]]

\* c.onEvict(key, value): the callback, which records its call against the
\* entry the key and value were read from
onEvict(h, e, k, v) ==
    [h EXCEPT !.evicts[e] = h.evicts[e] + 1, !.evArg[e] = <<k, v>>]

\* removeElement; e.Value.(*entry_ttl) panics on the list's root, which has no Value
removeElement(h, e) ==
    IF e = Root THEN [h EXCEPT !.panic = TRUE]
    ELSE LET h1 == ListRemove(h, e)
             h2 == [h1 EXCEPT !.items[h.key[e]] = Nil]
         IN  onEvict(h2, e, h.key[e], h.value[e])

\* removeOldest
removeOldest(h) ==
    LET ent == Back(h) IN IF ent # Nil THEN removeElement(h, ent) ELSE h

\* ------------------------------------------------------- time.Timer of an entry
\* time.NewTimer(d), t.Reset(d): the timer is due once d has passed
Arm(h, e, d) == [h EXCEPT !.when[e] = d]

\* t.Stop(): true iff the call stops the timer (it had not fired)
StopResult(h, e) == h.when[e] # Nil
Stop(h, e) == [h EXCEPT !.when[e] = Nil]

\* <-e.timer.C can complete: a fired value is waiting in the channel's buffer
CanRecv(h, e) == h.ch[e]
Recv(h, e) == [h EXCEPT !.ch[e] = FALSE]

\* entry_ttl.Reset never returns: Stop reports false and the fired value was
\* already received by the entry's CleanUp goroutine
ResetBlocks(h, e) == ~StopResult(h, e) /\ ~CanRecv(h, e)

\* entry_ttl.Reset(duration), when it returns
Reset(h, e, d) ==
    LET h1 == Stop(h, e)
        h2 == IF ~StopResult(h, e) THEN Recv(h1, e) ELSE h1
    IN  Arm(h2, e, d)

\* time.Now() moves on by one unit
Advance(h) ==
    [h EXCEPT !.ttl  = [e \in Entries |->
                          IF e <= h.nalloc /\ h.ttl[e] >= 0
                          THEN h.ttl[e] - 1 ELSE h.ttl[e]],
              !.when = [e \in Entries |->
                          IF h.when[e] > 0 THEN h.when[e] - 1 ELSE h.when[e]]]

\* the timer of e is due
Due(h, e) == h.when[e] = 0

\* ------------------------------------------------- the methods, run sequentially
\* Add, lines 82-84: the key is present
AddRefresh(h, ent, value) ==
    LET h1 == MoveToFront(h, ent)
    IN  [h1 EXCEPT !.value[ent] = value, !.ttl[ent] = h.expiry]

\* Add, lines 91-95: the new entry_ttl with its timer
AddAlloc(h, key, value) ==
    LET e == h.nalloc + 1
    IN  Arm([h EXCEPT !.nalloc = e, !.key[e] = key, !.value[e] = value,
                      !.ttl[e] = h.expiry], e, h.expiry)

\* Add, line 98
AddIndex(h, key, e) == [h EXCEPT !.items[key] = e]

\* Add, lines 100-105
AddEvict(h) ==
    LET evict == ListLen(h) > h.size
    IN  [h |-> IF evict THEN removeOldest(h) ELSE h, evicted |-> evict]

\* Add never returns: it blocks in Reset, holding the lock
AddBlocks(h, key) == h.items[key] # Nil /\ ResetBlocks(h, h.items[key])

\* Add: the heap after, whether an eviction occurred, the entry whose
\* goroutine was started
Add(h, key, value) ==
    IF h.items[key] # Nil
    THEN LET ent == h.items[key]
         IN  [h |-> Reset(AddRefresh(h, ent, value), ent, h.expiry),
              evicted |-> FALSE, spawned |-> Nil]
    ELSE LET e  == h.nalloc + 1
             h1 == AddAlloc(h, key, value)
             h2 == PushFront(h1, e)
             h3 == AddIndex(h2, key, e)
             r  == AddEvict(h3)
         IN  [h |-> r.h, evicted |-> r.evicted, spawned |-> e]

\* Remove
Remove(h, key) ==
    IF h.items[key] # Nil
    THEN [h |-> removeElement(h, h.items[key]), present |-> TRUE]
    ELSE [h |-> h, present |-> FALSE]

\* an expiry test that also counts the instant of expiry as expired
ExpiredAtInstant(h, ent) == h.ttl[ent] <= 0

\* Get, line 115: time.Now().After(ent.ttl)
Expired(h, ent) == h.ttl[ent] < 0

\* a Get that, like Peek, leaves the recency order alone
GetNoMove(h, key) ==
    IF h.items[key] # Nil
    THEN LET ent == h.items[key]
         IN  IF Expired(h, ent)
             THEN [h |-> Remove(h, key).h, value |-> Nil, ok |-> FALSE]
             ELSE [h |-> h, value |-> h.value[ent], ok |-> TRUE]
    ELSE [h |-> h, value |-> Nil, ok |-> FALSE]

\* Get (the *entry_ttl of an element is never nil: line 113 is never reached)
Get(h, key) ==
    IF h.items[key] # Nil
    THEN LET ent == h.items[key]
             h1  == MoveToFront(h, ent)
         IN  IF Expired(h1, ent)
             THEN [h |-> Remove(h1, key).h, value |-> Nil, ok |-> FALSE]
             ELSE [h |-> h1, value |-> h1.value[ent], ok |-> TRUE]
    ELSE [h |-> h, value |-> Nil, ok |-> FALSE]

\* a Peek made of Get
PeekByGet(h, key) == Get(h, key)

\* Contains: the heap after, and the result
Contains(h, key) == [h |-> h, ok |-> h.items[key] # Nil]

\* Peek: the heap after, and the results
Peek(h, key) ==
    IF h.items[key] # Nil
    THEN [h |-> h, value |-> h.value[h.items[key]], ok |-> TRUE]
    ELSE [h |-> h, value |-> Nil, ok |-> FALSE]

\* a RemoveOldest that takes the front of the list
RemoveFront(h) ==
    LET ent == IF h.len = 0 THEN Nil ELSE h.next[Root]
    IN  IF ent # Nil
        THEN [h |-> removeElement(h, ent),
              key |-> IF ent = Root THEN Nil ELSE h.key[ent],
              value |-> IF ent = Root THEN Nil ELSE h.value[ent], ok |-> TRUE]
        ELSE [h |-> h, key |-> Nil, value |-> Nil, ok |-> FALSE]

\* RemoveOldest
RemoveOldest(h) ==
    LET ent == Back(h)
    IN  IF ent # Nil
        THEN [h |-> removeElement(h, ent),
              key |-> IF ent = Root THEN Nil ELSE h.key[ent],
              value |-> IF ent = Root THEN Nil ELSE h.value[ent], ok |-> TRUE]
        ELSE [h |-> h, key |-> Nil, value |-> Nil, ok |-> FALSE]

\* GetOldest
GetOldest(h) ==
    LET ent == Back(h)
    IN  IF ent # Nil /\ ent # Root
        THEN [h |-> h, key |-> h.key[ent], value |-> h.value[ent], ok |-> TRUE]
        ELSE [h |-> h, key |-> Nil, value |-> Nil, ok |-> FALSE]

\* len(c.items)
ItemsLen(h) == Cardinality({k \in KeySet : h.items[k] # Nil})

\* Keys: a slice of len(c.items) slots, filled along the list from the back;
\* it panics when the walk goes past the last slot or meets the root
Keys(h) ==
    LET n == ItemsLen(h)
        w == Walk(h, Back(h), n + 1)
    IN  [panic |-> Len(w) > n \/ \E i \in 1..Len(w) : w[i] = Root,
         keys  |-> [i \in 1..n |->
                      IF i <= Len(w) /\ w[i] # Root THEN h.key[w[i]] ELSE Nil]]

\* Len
LenOf(h) == ListLen(h)

\* Resize, lines 194-196: the loop
RECURSIVE removeOldestTimes(_, _)
removeOldestTimes(h, n) ==
    IF n <= 0 THEN h ELSE removeOldestTimes(removeOldest(h), n - 1)

\* Resize, lines 190-193
ResizeDiff(h, size) ==
    LET diff == LenOf(h) - size IN IF diff < 0 THEN 0 ELSE diff

\* Resize
Resize(h, size) ==
    LET diff == ResizeDiff(h, size)
    IN  [h |-> [removeOldestTimes(h, diff) EXCEPT !.size = size],
         evicted |-> diff]

\* Purge, lines 67-72: the range over c.items
RECURSIVE PurgeItems(_, _)
PurgeItems(h, ks) ==
    IF ks = {} THEN h
    ELSE LET k == CHOOSE x \in ks : TRUE
             v == h.items[k]
         IN  PurgeItems(IF v = Nil THEN h
                        ELSE [onEvict(h, v, k, h.value[v]) EXCEPT !.items[k] = Nil],
                        ks \ {k})

\* a purge that empties the index and leaves the list as it is
PurgeIndexOnly(h) == PurgeItems(h, KeySet)

\* Purge
Purge(h) == ListInit(PurgeItems(h, KeySet))

\* ------------------------------------------------------------- processes
\* the CleanUp goroutine of entry e is process e; the caller threads follow
Callers == (MaxEntries + 1)..(MaxEntries + NThreads)
Procs == Entries \cup Callers

NoLoc == [key |-> Nil, val |-> Nil, ent |-> Nil, n |-> 0, size |-> 0,
          keys |-> <<>>, i |-> 0]

\* the state after NewLRUTtl(size, expiry, onEvict)
Init ==
    /\ \E size \in 0..MaxSize, expiry \in 1..MaxExpiry : c = NewLRUTtl(size, expiry)
    /\ lock = Nil
    /\ pc = [p \in Procs |-> IF p \in Entries THEN "none" ELSE "idle"]
    /\ loc = [p \in Procs |-> NoLoc]

\* the program runs: a cache was constructed and nothing has panicked
Alive == c.ok /\ ~c.panic

\* no method is running: every caller is between calls
Quiet == Alive /\ lock = Nil /\ \A p \in Callers : pc[p] = "idle"

\* ------------------------------------------------ time, timers, goroutines
\* the clock advances
Tick ==
    /\ Alive
    /\ c' = Advance(c)
    /\ UNCHANGED <<lock, pc, loc>>

\* the runtime fires the due timer of entry e: a send on e.timer.C, received at
\* once by a goroutine parked in CleanUp's <-e.timer.C, buffered otherwise
TimerFire(e) ==
    /\ Alive
    /\ Due(c, e)
    /\ IF pc[e] = "recv"
       THEN /\ c' = Stop(c, e)
            /\ pc' = [pc EXCEPT ![e] = "lock"]
       ELSE /\ c' = [Stop(c, e) EXCEPT !.ch[e] = TRUE]
            /\ pc' = pc
    /\ UNCHANGED <<lock, loc>>

\* CleanUp, line 33: the goroutine started by Add reaches <-e.timer.C
CleanUpRecv(e) ==
    /\ Alive
    /\ pc[e] = "start"
    /\ IF CanRecv(c, e)
       THEN /\ c' = Recv(c, e)
            /\ pc' = [pc EXCEPT ![e] = "lock"]
       ELSE /\ c' = c
            /\ pc' = [pc EXCEPT ![e] = "recv"]
    /\ UNCHANGED <<lock, loc>>

\* CleanUp, lines 37-39, with no method running: Lock, Remove(e.key), Unlock
CleanUp(e) ==
    /\ Quiet
    /\ pc[e] = "lock"
    /\ c' = Remove(c, c.key[e]).h
    /\ pc' = [pc EXCEPT ![e] = "done"]
    /\ UNCHANGED <<lock, loc>>

\* ------------------------------------------- the methods, one step per call
DoAdd(key, value) ==
    /\ Quiet
    /\ ~AddBlocks(c, key)
    /\ c.items[key] = Nil => c.nalloc < MaxEntries
    /\ LET r == Add(c, key, value)
       IN  /\ c' = r.h
           /\ pc' = IF r.spawned = Nil THEN pc
                    ELSE [pc EXCEPT ![r.spawned] = "start"]
    /\ UNCHANGED <<lock, loc>>

DoGet(key) ==
    /\ Quiet
    /\ c' = Get(c, key).h
    /\ UNCHANGED <<lock, pc, loc>>

DoContains(key) ==
    /\ Quiet
    /\ c' = Contains(c, key).h
    /\ UNCHANGED <<lock, pc, loc>>

DoPeek(key) ==
    /\ Quiet
    /\ c' = Peek(c, key).h
    /\ UNCHANGED <<lock, pc, loc>>

DoRemove(key) ==
    /\ Quiet
    /\ c' = Remove(c, key).h
    /\ UNCHANGED <<lock, pc, loc>>

DoRemoveOldest ==
    /\ Quiet
    /\ c' = RemoveOldest(c).h
    /\ UNCHANGED <<lock, pc, loc>>

DoGetOldest ==
    /\ Quiet
    /\ c' = GetOldest(c).h
    /\ UNCHANGED <<lock, pc, loc>>

DoKeys ==
    /\ Quiet
    /\ c' = [c EXCEPT !.panic = Keys(c).panic]
    /\ UNCHANGED <<lock, pc, loc>>

DoLen ==
    /\ Quiet
    /\ LenOf(c) \in Int
    /\ UNCHANGED vars

DoResize(size) ==
    /\ Quiet
    /\ c' = Resize(c, size).h
    /\ UNCHANGED <<lock, pc, loc>>

DoPurge ==
    /\ Quiet
    /\ c' = Purge(c)
    /\ UNCHANGED <<lock, pc, loc>>

Next ==
    \/ Tick
    \/ \E e \in Entries : TimerFire(e)
    \/ \E e \in Entries : CleanUpRecv(e)
    \/ \E e \in Entries : CleanUp(e)
    \/ \E key \in KeySet, value \in ValSet : DoAdd(key, value)
    \/ \E key \in KeySet : DoGet(key)
    \/ \E key \in KeySet : DoContains(key)
    \/ \E key \in KeySet : DoPeek(key)
    \/ \E key \in KeySet : DoRemove(key)
    \/ DoRemoveOldest
    \/ DoGetOldest
    \/ DoKeys
    \/ DoLen
    \/ \E size \in SizeArgs : DoResize(size)
    \/ DoPurge

Spec == Init /\ [][Next]_vars

\* --------------------------- the methods, statement by statement, per thread
\* a method returns to its caller
Return(p) ==
    /\ pc' = [pc EXCEPT ![p] = "idle"]
    /\ loc' = [loc EXCEPT ![p] = NoLoc]

\* Add, lines 78-81: Lock, and the lookup of the key
AddLock(p, key, value) ==
    /\ Alive
    /\ pc[p] = "idle"
    /\ lock = Nil
    /\ lock' = p
    /\ IF c.items[key] # Nil
       THEN /\ loc' = [loc EXCEPT ![p] = [NoLoc EXCEPT !.key = key, !.val = value,
                                                        !.ent = c.items[key]]]
            /\ pc' = [pc EXCEPT ![p] = "Add_refresh"]
       ELSE /\ c.nalloc < MaxEntries
            /\ loc' = [loc EXCEPT ![p] = [NoLoc EXCEPT !.key = key, !.val = value]]
            /\ pc' = [pc EXCEPT ![p] = "Add_new"]
    /\ UNCHANGED c

\* Add, lines 82-84
AddRefreshStep(p) ==
    /\ Alive
    /\ pc[p] = "Add_refresh"
    /\ c' = AddRefresh(c, loc[p].ent, loc[p].val)
    /\ pc' = [pc EXCEPT ![p] = "Reset_stop"]
    /\ UNCHANGED <<lock, loc>>

\* Reset, line 43: e.timer.Stop()
ResetStop(p) ==
    /\ Alive
    /\ pc[p] = "Reset_stop"
    /\ c' = Stop(c, loc[p].ent)
    /\ pc' = [pc EXCEPT ![p] = IF StopResult(c, loc[p].ent)
                                THEN "Reset_arm" ELSE "Reset_drain"]
    /\ UNCHANGED <<lock, loc>>

\* Reset, line 44: <-e.timer.C
ResetDrain(p) ==
    /\ Alive
    /\ pc[p] = "Reset_drain"
    /\ CanRecv(c, loc[p].ent)
    /\ c' = Recv(c, loc[p].ent)
    /\ pc' = [pc EXCEPT ![p] = "Reset_arm"]
    /\ UNCHANGED <<lock, loc>>

\* Reset, line 47, then Add's return false and its deferred Unlock
ResetArm(p) ==
    /\ Alive
    /\ pc[p] = "Reset_arm"
    /\ c' = Arm(c, loc[p].ent, c.expiry)
    /\ lock' = Nil
    /\ Return(p)

\* Add, lines 91-97: the entry, its timer, its goroutine, PushFront
AddNew(p) ==
    /\ Alive
    /\ pc[p] = "Add_new"
    /\ LET e == c.nalloc + 1
       IN  /\ c' = PushFront(AddAlloc(c, loc[p].key, loc[p].val), e)
           /\ pc' = [pc EXCEPT ![p] = "Add_index", ![e] = "start"]
           /\ loc' = [loc EXCEPT ![p].ent = e]
    /\ UNCHANGED lock

\* Add, line 98
AddIndexStep(p) ==
    /\ Alive
    /\ pc[p] = "Add_index"
    /\ c' = AddIndex(c, loc[p].key, loc[p].ent)
    /\ pc' = [pc EXCEPT ![p] = "Add_evict"]
    /\ UNCHANGED <<lock, loc>>

\* Add, lines 100-105, and the deferred Unlock
AddEvictStep(p) ==
    /\ Alive
    /\ pc[p] = "Add_evict"
    /\ c' = AddEvict(c).h
    /\ lock' = Nil
    /\ Return(p)

\* Len, line 185: the read of the list's length
LenCall(p) ==
    /\ Alive
    /\ pc[p] = "idle"
    /\ loc' = [loc EXCEPT ![p] = [NoLoc EXCEPT !.n = LenOf(c)]]
    /\ pc' = [pc EXCEPT ![p] = "Len_ret"]
    /\ UNCHANGED <<c, lock>>

\* Len returns the length it read
LenRet(p) ==
    /\ Alive
    /\ pc[p] = "Len_ret"
    /\ Return(p)
    /\ UNCHANGED <<c, lock>>

\* Remove, line 144, for the key in loc[p]: on to removeElement, or return false
Lookup(p, key, found, absent) ==
    IF c.items[key] # Nil
    THEN /\ loc' = [loc EXCEPT ![p] = [NoLoc EXCEPT !.key = key, !.ent = c.items[key]]]
         /\ pc' = [pc EXCEPT ![p] = found]
    ELSE /\ loc' = [loc EXCEPT ![p] = NoLoc]
         /\ pc' = [pc EXCEPT ![p] = absent]

\* CleanUp, lines 37-38: Lock, and Remove's lookup of e.key (line 144); an
\* absent key is Remove's return false and the Unlock of line 39
CleanUpLock(e) ==
    /\ Alive
    /\ pc[e] = "lock"
    /\ lock = Nil
    /\ Lookup(e, c.key[e], "elem", "done")
    /\ lock' = IF c.items[c.key[e]] # Nil THEN e ELSE Nil
    /\ UNCHANGED c

\* removeElement, called from Remove, RemoveOldest or (through Remove) CleanUp,
\* which then unlocks (line 39) and ends
RemoveElem(p) ==
    /\ Alive
    /\ pc[p] = "elem"
    /\ c' = removeElement(c, loc[p].ent)
    /\ loc' = [loc EXCEPT ![p] = NoLoc]
    /\ IF p \in Entries
       THEN /\ pc' = [pc EXCEPT ![p] = "done"]
            /\ lock' = Nil
       ELSE /\ pc' = [pc EXCEPT ![p] = "idle"]
            /\ lock' = lock

\* Get, line 110
GetLookup(p, key) ==
    /\ Alive
    /\ pc[p] = "idle"
    /\ Lookup(p, key, "Get_move", "idle")
    /\ UNCHANGED <<c, lock>>

\* Get, line 111
GetMove(p) ==
    /\ Alive
    /\ pc[p] = "Get_move"
    /\ c' = MoveToFront(c, loc[p].ent)
    /\ pc' = [pc EXCEPT ![p] = "Get_check"]
    /\ UNCHANGED <<lock, loc>>

\* Get, lines 115-119: expired, on to c.Remove(key); else return the value
GetCheck(p) ==
    /\ Alive
    /\ pc[p] = "Get_check"
    /\ IF Expired(c, loc[p].ent)
       THEN /\ pc' = [pc EXCEPT ![p] = "Get_remove"]
            /\ loc' = loc
       ELSE Return(p)
    /\ UNCHANGED <<c, lock>>

\* Get, line 116: Remove's lookup (line 144)
GetRemove(p) ==
    /\ Alive
    /\ pc[p] = "Get_remove"
    /\ Lookup(p, loc[p].key, "elem", "idle")
    /\ UNCHANGED <<c, lock>>

\* Remove, line 144
RemoveLookup(p, key) ==
    /\ Alive
    /\ pc[p] = "idle"
    /\ Lookup(p, key, "elem", "idle")
    /\ UNCHANGED <<c, lock>>

\* RemoveOldest, lines 153-154
RemoveOldestBack(p) ==
    /\ Alive
    /\ pc[p] = "idle"
    /\ IF Back(c) # Nil
       THEN /\ loc' = [loc EXCEPT ![p] = [NoLoc EXCEPT !.ent = Back(c)]]
            /\ pc' = [pc EXCEPT ![p] = "elem"]
       ELSE UNCHANGED <<loc, pc>>
    /\ UNCHANGED <<c, lock>>

\* Resize, lines 190-193
ResizeStart(p, size) ==
    /\ Alive
    /\ pc[p] = "idle"
    /\ loc' = [loc EXCEPT ![p] = [NoLoc EXCEPT !.n = ResizeDiff(c, size), !.size = size]]
    /\ pc' = [pc EXCEPT ![p] = "Resize_loop"]
    /\ UNCHANGED <<c, lock>>

\* Resize, lines 194-198: one removeOldest of the loop, or c.size = size
ResizeLoop(p) ==
    /\ Alive
    /\ pc[p] = "Resize_loop"
    /\ IF loc[p].n > 0
       THEN /\ c' = removeOldest(c)
            /\ loc' = [loc EXCEPT ![p].n = loc[p].n - 1]
            /\ pc' = pc
       ELSE /\ c' = [c EXCEPT !.size = loc[p].size]
            /\ Return(p)
    /\ UNCHANGED lock

\* Purge, lines 67-72
PurgeRange(p) ==
    /\ Alive
    /\ pc[p] = "idle"
    /\ c' = PurgeItems(c, KeySet)
    /\ pc' = [pc EXCEPT ![p] = "Purge_init"]
    /\ UNCHANGED <<lock, loc>>

\* Purge, line 73
PurgeInit(p) ==
    /\ Alive
    /\ pc[p] = "Purge_init"
    /\ c' = ListInit(c)
    /\ Return(p)
    /\ UNCHANGED lock

\* threads that only call Add and Len, with the timers and goroutines
NextAdd ==
    \/ Tick
    \/ \E e \in Entries : TimerFire(e)
    \/ \E e \in Entries : CleanUpRecv(e)
    \/ \E e \in Entries : CleanUpLock(e)
    \/ \E p \in Procs : RemoveElem(p)
    \/ \E p \in Callers, key \in KeySet, value \in ValSet : AddLock(p, key, value)
    \/ \E p \in Callers : AddRefreshStep(p)
    \/ \E p \in Callers : ResetStop(p)
    \/ \E p \in Callers : ResetDrain(p)
    \/ \E p \in Callers : ResetArm(p)
    \/ \E p \in Callers : AddNew(p)
    \/ \E p \in Callers : AddIndexStep(p)
    \/ \E p \in Callers : AddEvictStep(p)
    \/ \E p \in Callers : LenCall(p)
    \/ \E p \in Callers : LenRet(p)

\* the Go scheduler runs every runnable goroutine, the runtime fires due timers,
\* time passes, and a goroutine waiting in Lock is not starved (sync.Mutex);
\* callers need not call again
Fairness ==
    /\ WF_vars(Tick)
    /\ \A e \in Entries : WF_vars(TimerFire(e))
    /\ \A e \in Entries : WF_vars(CleanUpRecv(e))
    /\ \A e \in Entries : SF_vars(CleanUpLock(e))
    /\ \A p \in Procs : WF_vars(RemoveElem(p))
    /\ \A p \in Callers : WF_vars(AddRefreshStep(p))
    /\ \A p \in Callers : WF_vars(ResetStop(p))
    /\ \A p \in Callers : WF_vars(ResetDrain(p))
    /\ \A p \in Callers : WF_vars(ResetArm(p))
    /\ \A p \in Callers : WF_vars(AddNew(p))
    /\ \A p \in Callers : WF_vars(AddIndexStep(p))
    /\ \A p \in Callers : WF_vars(AddEvictStep(p))
    /\ \A p \in Callers : WF_vars(LenRet(p))

SpecAdd == Init /\ [][NextAdd]_vars /\ Fairness

\* one thread that calls the mutating methods statement by statement, with the
\* timers and goroutines
Main == MaxEntries + 1

NextConc ==
    \/ Tick
    \/ \E e \in Entries : TimerFire(e)
    \/ \E e \in Entries : CleanUpRecv(e)
    \/ \E e \in Entries : CleanUpLock(e)
    \/ \E p \in Entries \cup {Main} : RemoveElem(p)
    \/ \E key \in KeySet, value \in ValSet : AddLock(Main, key, value)
    \/ AddRefreshStep(Main)
    \/ ResetStop(Main)
    \/ ResetDrain(Main)
    \/ ResetArm(Main)
    \/ AddNew(Main)
    \/ AddIndexStep(Main)
    \/ AddEvictStep(Main)
    \/ \E key \in KeySet : GetLookup(Main, key)
    \/ GetMove(Main)
    \/ GetCheck(Main)
    \/ GetRemove(Main)
    \/ \E key \in KeySet : RemoveLookup(Main, key)
    \/ RemoveOldestBack(Main)
    \/ \E size \in SizeArgs : ResizeStart(Main, size)
    \/ ResizeLoop(Main)
    \/ PurgeRange(Main)
    \/ PurgeInit(Main)

SpecConc == Init /\ [][NextConc]_vars

\* Keys, lines 174-176: the slice of len(c.items) empty slots, and the back of
\* the list
KeysMake(p) ==
    /\ Alive
    /\ pc[p] = "idle"
    /\ loc' = [loc EXCEPT ![p] = [NoLoc EXCEPT !.keys = [j \in 1..ItemsLen(c) |-> Nil],
                                               !.ent = Back(c)]]
    /\ pc' = [pc EXCEPT ![p] = "Keys_loop"]
    /\ UNCHANGED <<c, lock>>

\* Keys, lines 176-179: one turn of the loop; keys[i] panics past the last slot,
\* and so does the Value of the list's root
KeysLoop(p) ==
    /\ Alive
    /\ pc[p] = "Keys_loop"
    /\ LET ent == loc[p].ent
           i   == loc[p].i
       IN  IF ent = Nil
           THEN /\ pc' = [pc EXCEPT ![p] = "Keys_ret"]
                /\ UNCHANGED <<c, loc>>
           ELSE IF ent = Root \/ i >= Len(loc[p].keys)
           THEN /\ pc' = [pc EXCEPT ![p] = "Keys_panic"]
                /\ c' = [c EXCEPT !.panic = TRUE]
                /\ UNCHANGED loc
           ELSE /\ loc' = [loc EXCEPT ![p].keys[i + 1] = c.key[ent],
                                      ![p].i = i + 1,
                                      ![p].ent = Prev(c, ent)]
                /\ UNCHANGED <<c, pc>>
    /\ UNCHANGED lock

\* Keys, line 180: return keys
KeysRet(p) ==
    /\ Alive
    /\ pc[p] = "Keys_ret"
    /\ Return(p)
    /\ UNCHANGED <<c, lock>>

\* one thread that calls Keys, one that calls Add and Remove, statement by
\* statement, with the timers and goroutines
Writer == Main + 1

NextKeys ==
    \/ Tick
    \/ \E e \in Entries : TimerFire(e)
    \/ \E e \in Entries : CleanUpRecv(e)
    \/ \E e \in Entries : CleanUpLock(e)
    \/ \E p \in Entries \cup {Writer} : RemoveElem(p)
    \/ \E key \in KeySet, value \in ValSet : AddLock(Writer, key, value)
    \/ AddRefreshStep(Writer)
    \/ ResetStop(Writer)
    \/ ResetDrain(Writer)
    \/ ResetArm(Writer)
    \/ AddNew(Writer)
    \/ AddIndexStep(Writer)
    \/ AddEvictStep(Writer)
    \/ \E key \in KeySet : RemoveLookup(Writer, key)
    \/ KeysMake(Main)
    \/ KeysLoop(Main)
    \/ KeysRet(Main)

SpecKeys == Init /\ [][NextKeys]_vars

\* ------------------------------------------------------------------ claims
\* entry e was created by Add
Allocated(e) == e <= c.nalloc

\* entry e is in the order list or the index
InCache(e) == Allocated(e) /\ (c.elist[e] \/ c.items[c.key[e]] = e)

\* C1. Capacity invariant: every Len() call returns at most the capacity, also
\* one that runs while another thread's Add is between its insertion and its
\* eviction.
CapacityInvariant ==
    \A p \in Callers : pc[p] = "Len_ret" => loc[p].n <= c.size

\* C2. No double eviction: in every interleaving, onEvict is invoked at most
\* once for the same entry.
NoDoubleEviction == \A e \in Entries : c.evicts[e] <= 1

\* C3. No premature expiry: a timer fire (a CleanUp step) never removes an
\* entry before ttl has passed since the most recent Add of its key.
NoPrematureExpiry ==
    [][\A g \in Entries :
          (pc[g] = "lock" /\ pc'[g] = "done") =>
              \A e \in Entries : c'.evicts[e] > c.evicts[e] => c.ttl[e] <= 0]_vars

\* process p is inside its reads and updates of the order list and the index
InMutation(p) ==
    pc[p] \in {"Add_refresh", "Reset_stop", "Reset_drain", "Reset_arm", "Add_new",
               "Add_index", "Add_evict", "Get_move", "Get_check", "Get_remove",
               "elem", "Resize_loop", "Purge_init"}

\* C4. Mutual exclusion: no two of Add, Get, Remove, RemoveOldest, Purge,
\* Resize and the timer-fire reaping are inside their reads and updates of the
\* order list and the index at the same time.
MutualExclusion ==
    \A p, q \in Procs : p # q => ~(InMutation(p) /\ InMutation(q))

\* C5. No operation blocks indefinitely: no reachable state has an Add that
\* holds the lock and waits in Reset for a timer value that can no longer come,
\* with the entry's cleanup waiting for the lock.
NoAddCleanUpDeadlock ==
    ~ \E p \in Callers, e \in Entries :
          /\ pc[p] = "Reset_drain" /\ loc[p].ent = e /\ lock = p
          /\ ResetBlocks(c, e)
          /\ pc[e] = "lock"

\* a method called with the key of entry e is running
KeyInUse(e) ==
    Allocated(e) /\ \E p \in Callers : pc[p] # "idle" /\ loc[p].key = c.key[e]

\* C6. Eventual reaping: under fair scheduling, an entry whose key is not the
\* argument of a call again eventually leaves the order list and the index.
EventualReaping ==
    \A e \in Entries : InCache(e) ~> (~InCache(e) \/ KeyInUse(e))

\* the keys of the order list, oldest first
KeysOf(h) == [i \in 1..Len(Order(h)) |-> h.key[Order(h)[i]]]

\* the keys of the index
Live(h) == {k \in KeySet : h.items[k] # Nil}

\* sequence s without the elements outside set S
Restrict(s, S) == LET In(x) == x \in S IN SelectSeq(s, In)

\* the elements of sequence s
Range(s) == {s[i] : i \in 1..Len(s)}

\* Add(key, ...) can be called and returns in heap h
AddReturns(h, key) ==
    /\ ~AddBlocks(h, key)
    /\ h.items[key] = Nil => h.nalloc < MaxEntries

\* C7. Capacity eviction picks the LRU entry: an Add of an absent key that
\* takes the size over the capacity removes exactly the entry that was at the
\* back of the order before the insert, calls onEvict with its key and value
\* and returns true; otherwise it removes nothing and returns false.
CapacityEviction ==
    \A key \in KeySet, value \in ValSet :
        (Alive /\ c.items[key] = Nil /\ AddReturns(c, key)) =>
            LET r   == Add(c, key, value)
                e   == c.nalloc + 1
                old == Back(c)
            IN  IF LenOf(c) + 1 > c.size
                THEN /\ r.evicted
                     /\ old # Nil
                     /\ r.h.evicts = [c.evicts EXCEPT ![old] = c.evicts[old] + 1]
                     /\ r.h.evArg[old] = <<c.key[old], c.value[old]>>
                     /\ Order(r.h) = Tail(Order(c)) \o <<e>>
                     /\ r.h.items = [c.items EXCEPT ![c.key[old]] = Nil, ![key] = e]
                ELSE /\ ~r.evicted
                     /\ r.h.evicts = c.evicts
                     /\ Order(r.h) = Order(c) \o <<e>>
                     /\ r.h.items = [c.items EXCEPT ![key] = e]

\* Keys() after a method that took heap h to heap h2 and whose recency update
\* was for the keys in T: the surviving other keys in their old order, then T
KeysStep(h, h2, T) ==
    /\ ~Keys(h2).panic
    /\ Keys(h2).keys = Restrict(Keys(h).keys, Live(h2) \ T)
                         \o (IF T \subseteq Live(h2) /\ T # {}
                             THEN <<CHOOSE k \in T : TRUE>> ELSE <<>>)

GetLazyExpiry ==
    \A key \in KeySet :
        Alive =>
            LET r == Get(c, key)
                e == c.items[key]
            IN  IF e = Nil
                THEN ~r.ok /\ r.h = c
                ELSE IF c.ttl[e] < 0
                THEN /\ ~r.ok
                     /\ r.h.items = [c.items EXCEPT ![key] = Nil]
                     /\ Order(r.h) = Restrict(Order(c), Entries \ {e})
                     /\ r.h.evicts = [c.evicts EXCEPT ![e] = 1]
                     /\ r.h.evArg[e] = <<key, c.value[e]>>
                ELSE /\ r.ok
                     /\ r.value = c.value[e]
                     /\ r.h.items = c.items
                     /\ Range(Order(r.h)) = Range(Order(c))
                     /\ r.h.evicts = c.evicts

\* a state where Get meets an expired entry whose timer has not fired yet, and
\* evicts it
GetLazyExpiryWitness ==
    /\ Alive
    /\ \E key \in KeySet :
          /\ c.items[key] # Nil
          /\ c.ttl[c.items[key]] < 0
          /\ c.when[c.items[key]] # Nil
          /\ ~Get(c, key).ok
          /\ Get(c, key).h.evicts[c.items[key]] = 1
          /\ Get(c, key).h.items[key] = Nil

\* C10. Refresh by Add: Add on a present key replaces the value, sets the
\* expiry and the entry's timer to ttl from now, moves the entry to the most
\* recently used end and returns false; Len, the other entries and the onEvict
\* calls are unchanged.
RefreshByAdd ==
    \A key \in KeySet, value \in ValSet :
        (Alive /\ c.items[key] # Nil) =>
            LET e == c.items[key]
                r == Add(c, key, value)
            IN  /\ ~AddBlocks(c, key)
                /\ ~r.evicted
                /\ r.h.value[e] = value
                /\ r.h.ttl[e] = c.expiry
                /\ r.h.when[e] = c.expiry
                /\ ~r.h.ch[e]
                /\ Order(r.h) = Restrict(Order(c), Entries \ {e}) \o <<e>>
                /\ LenOf(r.h) = LenOf(c)
                /\ r.h.items = c.items
                /\ r.h.evicts = c.evicts
                /\ \A o \in Entries \ {e} :
                      /\ r.h.value[o] = c.value[o]
                      /\ r.h.ttl[o] = c.ttl[o]
                      /\ r.h.when[o] = c.when[o]

\* the entries onEvict was called for between heap h and heap h2
Evicted(h, h2) == {e \in Entries : h2.evicts[e] # h.evicts[e]}

\* the last n elements of sequence s
Suffix(s, n) == SubSeq(s, Len(s) - n + 1, Len(s))

\* C11. Resize(n), for every integer n: the result is the number of entries the
\* call removed, each with one onEvict call; the removed entries are the least
\* recently used ones and the others keep their order; afterwards the capacity
\* is n and Len() <= n; nothing more is removed than the capacity asks for.
ResizeReturn ==
    \A size \in SizeArgs :
        Alive =>
            LET r == Resize(c, size)
            IN  /\ r.evicted = Cardinality(Evicted(c, r.h))
                /\ \A e \in Evicted(c, r.h) : r.h.evicts[e] = c.evicts[e] + 1
                /\ r.evicted <= LenOf(c)
                /\ Order(r.h) = Suffix(Order(c), LenOf(c) - r.evicted)
                /\ Range(Order(c)) \ Range(Order(r.h)) = Evicted(c, r.h)
                /\ Live(r.h) = {c.key[e] : e \in Range(Order(r.h))}
                /\ r.h.size = size
                /\ LenOf(r.h) <= size
                /\ LenOf(c) <= size => r.evicted = 0
                /\ LenOf(c) > size => LenOf(r.h) = size

\* C12. Purge completeness: after Purge, Len() is 0, Keys() is empty, Contains
\* is false for every key, onEvict was called exactly once for each entry that
\* was in the cache, with its key and value, and for no other; the capacity is
\* kept and an Add that follows stores its key as in a new cache.
PurgeComplete ==
    Alive =>
        LET h2  == Purge(c)
            was == Range(Order(c))
        IN  /\ LenOf(h2) = 0
            /\ Keys(h2) = [panic |-> FALSE, keys |-> <<>>]
            /\ Order(h2) = <<>>
            /\ \A key \in KeySet : ~Contains(h2, key).ok /\ ~Peek(h2, key).ok
            /\ \A e \in Entries :
                  IF e \in was
                  THEN /\ h2.evicts[e] = 1
                       /\ h2.evArg[e] = <<c.key[e], c.value[e]>>
                  ELSE /\ h2.evicts[e] = c.evicts[e]
                       /\ h2.evArg[e] = c.evArg[e]
            /\ h2.size = c.size /\ h2.expiry = c.expiry
            /\ \A key \in KeySet, value \in ValSet :
                  (c.size >= 1 /\ c.nalloc < MaxEntries) =>
                      LET r == Add(h2, key, value)
                      IN  /\ ~AddBlocks(h2, key)
                          /\ ~r.evicted
                          /\ LenOf(r.h) = 1
                          /\ Keys(r.h).keys = <<key>>
                          /\ Peek(r.h, key).ok /\ Peek(r.h, key).value = value
                          /\ r.h.evicts = h2.evicts

\* a state after a Purge of a cache that held an entry: the list was
\* re-initialised under an element that still points to it
PurgeCompleteWitness ==
    /\ Alive
    /\ LenOf(c) = 0
    /\ Keys(c).keys = <<>>
    /\ \E e \in Entries :
          /\ Allocated(e)
          /\ c.elist[e]
          /\ c.evicts[e] = 1
          /\ c.items[c.key[e]] = Nil

\* C13. Removal of an absent key is a no-op: Remove of a key that is not in the
\* cache returns false and changes nothing; and the removal made by the CleanUp
\* goroutine of an entry that another operation has already removed changes
\* nothing either.
RemoveAbsentNoOp ==
    Alive =>
        /\ \A key \in KeySet :
              c.items[key] = Nil => Remove(c, key) = [h |-> c, present |-> FALSE]
        /\ \A e \in Entries :
              (pc[e] = "lock" /\ ~InCache(e)) => Remove(c, c.key[e]).h = c

\* C14. Peek and Contains are pure lookups: Peek returns the value and true,
\* and Contains true, exactly for the keys of the index, expired or not; neither
\* changes the order, the index, an expiry or a timer, nor calls onEvict.
PureLookups ==
    \A key \in KeySet :
        Alive =>
            /\ Contains(c, key).ok = (key \in Live(c))
            /\ Contains(c, key).h = c
            /\ Peek(c, key).ok = (key \in Live(c))
            /\ Peek(c, key).h = c
            /\ key \in Live(c) => Peek(c, key).value = c.value[c.items[key]]

\* a state where Peek and Contains find an entry that Get would expire
PureLookupsWitness ==
    /\ Alive
    /\ \E key \in KeySet :
          /\ key \in Live(c)
          /\ Expired(c, c.items[key])
          /\ ~Get(c, key).ok
          /\ Peek(c, key).ok
          /\ Contains(c, key).ok

\* C15. Oldest-entry access: on a non-empty cache GetOldest returns the key and
\* value of the least recently used entry with ok and changes nothing, and
\* RemoveOldest returns the same, removes exactly that entry from the order and
\* the index and calls onEvict once for it; on an empty cache both return not
\* ok and change nothing.
OldestAccess ==
    Alive =>
        LET g == GetOldest(c)
            r == RemoveOldest(c)
        IN  IF Order(c) = <<>>
            THEN /\ ~g.ok /\ g.h = c
                 /\ ~r.ok /\ r.h = c
            ELSE LET old == Order(c)[1]
                 IN  /\ g.ok /\ g.h = c
                     /\ g.key = c.key[old] /\ g.value = c.value[old]
                     /\ r.ok
                     /\ r.key = c.key[old] /\ r.value = c.value[old]
                     /\ Order(r.h) = Tail(Order(c))
                     /\ r.h.items = [c.items EXCEPT ![c.key[old]] = Nil]
                     /\ r.h.evicts = [c.evicts EXCEPT ![old] = 1]
                     /\ r.h.evArg[old] = <<c.key[old], c.value[old]>>

\* a state where the oldest of two entries is not the one added first, and
\* RemoveOldest takes it and leaves the other
OldestAccessWitness ==
    /\ Alive
    /\ Order(c) = <<2, 1>>
    /\ GetOldest(c).key = c.key[2]
    /\ Order(RemoveOldest(c).h) = <<1>>
    /\ RemoveOldest(c).h.evicts[2] = 1

\* no method and no CleanUp removal is under way
AtRest ==
    /\ lock = Nil
    /\ \A p \in Callers : pc[p] = "idle"
    /\ \A e \in Entries : pc[e] # "elem"

\* C16. Index/order consistency: between operations, under every interleaving
\* of the methods and the timer fires, every key of the index maps to an
\* element of the list that holds that key, every element of the list has its
\* key mapped to it, and the length of the list is the size of the index.
IndexOrderConsistent ==
    (Alive /\ AtRest) =>
        /\ \A key \in Live(c) :
              /\ c.items[key] \in Range(Order(c))
              /\ c.key[c.items[key]] = key
        /\ \A e \in Range(Order(c)) : e # Root /\ c.items[c.key[e]] = e
        /\ Len(Order(c)) = LenOf(c)
        /\ LenOf(c) = ItemsLen(c)

\* the CleanUp goroutine of entry e is started and has not ended
Pending(e) == pc[e] \in {"start", "recv", "lock", "elem"}

\* C17. Timers are cancelled with their entry: every armed timer and every
\* pending CleanUp goroutine belongs to an entry that is in the cache, and there
\* are no more pending goroutines than entries in the cache.
TimersCancelled ==
    Alive =>
        /\ \A e \in Entries : (c.when[e] # Nil \/ Pending(e)) => InCache(e)
        /\ Cardinality({e \in Entries : Pending(e)}) <= LenOf(c)

\* C18. Add always stores its key: when Add(k, v) returns, k is in the cache,
\* Peek(k) gives v, and k is at the most recently used end; onEvict was not
\* called for the entry of k.
AddStores ==
    \A key \in KeySet, value \in ValSet :
        (Alive /\ AddReturns(c, key)) =>
            LET r == Add(c, key, value)
                e == r.h.items[key]
            IN  /\ Contains(r.h, key).ok
                /\ Peek(r.h, key).ok
                /\ Peek(r.h, key).value = value
                /\ Order(r.h) # <<>>
                /\ Order(r.h)[Len(Order(r.h))] = e
                /\ r.h.evicts[e] = 0

\* C19. Capacity stays positive: a cache is constructed only for a positive
\* size, and the capacity of a constructed cache is at least 1 in every state.
CapacityPositive == c.ok => c.size >= 1

\* C20. Keys is total under concurrency: a Keys() that runs while another
\* thread runs Add or Remove, or a timer fires, does not fail on a write past
\* the end of its slice, and returns a slice with no empty slot and no key
\* twice.
KeysTotal ==
    \A p \in Callers :
        /\ pc[p] # "Keys_panic"
        /\ pc[p] = "Keys_ret" =>
              /\ \A j \in 1..Len(loc[p].keys) : loc[p].keys[j] # Nil
              /\ Cardinality(Range(loc[p].keys)) = Len(loc[p].keys)

====
